---- MODULE Spec2Model ----
(***************************************************************************)
(* PDF-Translator: extract text from a PDF, translate it chunk by chunk    *)
(* through a remote service, and render the translation into a new PDF.    *)
(* Model of src/translator.py (class PDFTranslator) and of the Translate   *)
(* button handler of src/app.py.                                           *)
(*                                                                         *)
(* A Python str is a sequence of characters; a character is a one-element  *)
(* TLA+ string, or the name of its code point ("U+2018") when it is not    *)
(* ASCII.                                                                  *)
(***************************************************************************)
EXTENDS Integers, Sequences, FiniteSets, TLC

\* ------------------------------------------------------------------ bounds
\* chunk_size is 15000 in the source (translator.py:51); the model scales it
\* down so that texts of a few characters span several chunks.
chunk_size == 2
MaxTextLen == 5      \* longest text handed directly to translate_text
MaxRenderLen == 4    \* longest text handed directly to create_pdf
MaxPages == 2        \* most pages of an input document

None == "None"

\* ------------------------------------------------------------- characters
SP == " "
NL == "\n"
Whitespace == {SP, NL}

\* the six characters create_pdf replaces (translator.py:112-117)
SmartChars == {"U+2018", "U+2019", "U+201C", "U+201D", "U+2014", "U+2026"}

\* a character outside the output font's character set (Helvetica, latin-1)
Unsupported == {"U+4E2D"}

TextAlphabet == {"a", SP, NL}
RenderAlphabet == {"a", NL} \cup SmartChars \cup Unsupported

\* all strings over alphabet A of length at most n
Strings(A, n) == UNION {[1..k -> A] : k \in 0..n}

\* --------------------------------------------------- Python str operations
Min(a, b) == IF a < b THEN a ELSE b

\* s[i:j] for 0 <= i <= j
Slice(s, i, j) == SubSeq(s, i + 1, Min(j, Len(s)))

RECURSIVE lstrip(_)
lstrip(s) ==
    IF s # <<>> /\ Head(s) \in Whitespace THEN lstrip(Tail(s)) ELSE s

RECURSIVE rstrip(_)
rstrip(s) ==
    IF s # <<>> /\ s[Len(s)] \in Whitespace
    THEN rstrip(SubSeq(s, 1, Len(s) - 1)) ELSE s

\* str.strip()
strip(s) == rstrip(lstrip(s))

\* str.split() with no separator: the maximal runs of non-whitespace
RECURSIVE split_ws(_, _)
split_ws(s, cur) ==
    IF s = <<>> THEN (IF cur = <<>> THEN <<>> ELSE <<cur>>)
    ELSE IF Head(s) \in Whitespace
         THEN (IF cur = <<>> THEN <<>> ELSE <<cur>>) \o split_ws(Tail(s), <<>>)
         ELSE split_ws(Tail(s), Append(cur, Head(s)))

split(s) == split_ws(s, <<>>)

\* str.split('\n\n'): cut at each non-overlapping blank line, left to right
RECURSIVE split_blank(_, _)
split_blank(s, cur) ==
    IF s = <<>> THEN <<cur>>
    ELSE IF Len(s) >= 2 /\ s[1] = NL /\ s[2] = NL
         THEN <<cur>> \o split_blank(SubSeq(s, 3, Len(s)), <<>>)
         ELSE split_blank(Tail(s), Append(cur, Head(s)))

split_paragraphs(s) == split_blank(s, <<>>)

\* sep.join(parts)
RECURSIVE join(_, _)
join(sep, parts) ==
    IF parts = <<>> THEN <<>>
    ELSE IF Len(parts) = 1 THEN parts[1]
    ELSE parts[1] \o sep \o join(sep, Tail(parts))

\* s.replace(old, new) for a one-character old
RECURSIVE replace(_, _, _)
replace(s, old, new) ==
    IF s = <<>> THEN <<>>
    ELSE (IF Head(s) = old THEN new ELSE <<Head(s)>>) \o replace(Tail(s), old, new)

\* len(range(0, n, step))
range_len(n, step) == (n + step - 1) \div step

\* ------------------------------------------------------------ extract_text
\* text += page_text + "\n\n" for every page, in page order
RECURSIVE concat_pages(_)
concat_pages(ps) ==
    IF ps = <<>> THEN <<>>
    ELSE Head(ps) \o <<NL, NL>> \o concat_pages(Tail(ps))

extracted(ps) == strip(concat_pages(ps))

\* ---------------------------------------------------------- translate_text
\* chunks = [text[i:i + chunk_size] for i in range(0, len(text), chunk_size)]
char_chunks(t) ==
    [k \in 1..range_len(Len(t), chunk_size) |->
        Slice(t, (k - 1) * chunk_size, (k - 1) * chunk_size + chunk_size)]

\* for i in range(0, len(words), chunk_size): ' '.join(words[i:i + chunk_size])
word_chunks(t) ==
    LET words == split(t) IN
    [k \in 1..range_len(Len(words), chunk_size) |->
        join(<<SP>>, Slice(words, (k - 1) * chunk_size,
                                  (k - 1) * chunk_size + chunk_size))]

\* the list the translation loop iterates: the word chunks are appended to
\* the character chunks before the loop starts
make_chunks(t) == char_chunks(t) \o word_chunks(t)

\* -------------------------------------------------------------- create_pdf
\* clean_para with the ellipsis replacement left out
clean_para_no_ellipsis(para) ==
    replace(replace(replace(replace(replace(para,
        "U+2018", <<"'">>),
        "U+2019", <<"'">>),
        "U+201C", <<"\"">>),
        "U+201D", <<"\"">>),
        "U+2014", <<"-">>)

clean_para(para) ==
    replace(replace(replace(replace(replace(replace(para,
        "U+2018", <<"'">>),
        "U+2019", <<"'">>),
        "U+201C", <<"\"">>),
        "U+201D", <<"\"">>),
        "U+2014", <<"-">>),
        "U+2026", <<".", ".", ".">>)

\* the characters the core font can encode
Encodable(c) == c \notin SmartChars /\ c \notin Unsupported

\* pdf.multi_cell raises on a character the font cannot encode
multi_cell_raises(s) == \E k \in 1..Len(s) : ~Encodable(s[k])

\* ------------------------------------------------------------------- state
VARIABLES
    entry,              \* which caller runs: see Entries
    api_key,            \* the api_key argument of PDFTranslator(...)
    env_key,            \* os.getenv('OPENAI_API_KEY') after load_dotenv()
    pages,              \* the per-page texts pypdf extracts from the document
    pc,                 \* position of the (single) thread of control
    text,               \* RawText: the text argument of translate_text
    chunks,             \* translate_text: the list the loop iterates
    translated_chunks,  \* translate_text: responses collected so far
    translated_text,    \* TranslatedText: the text argument of create_pdf
    error,              \* the exception that reached the caller, or NoError
    paragraphs,         \* create_pdf: text.split('\n\n')
    para_i,             \* create_pdf: paragraphs consumed so far
    lines_added,        \* create_pdf counter
    lines_skipped,      \* create_pdf counter
    tmp_input,          \* app: the temporary input file exists
    out_file,           \* the file at output_path exists
    requests,           \* history: requests received by the remote service
    service_log,        \* history: what the service answered, in order
    handed,             \* history: paragraphs handed to pdf.multi_cell
    outputs,            \* history: number of pdf.output calls
    calls,              \* history: invocations of each method
    returns             \* history: normal returns of each method

vars == <<entry, api_key, env_key, pages, pc, text, chunks, translated_chunks,
          translated_text, error, paragraphs, para_i, lines_added,
          lines_skipped, tmp_input, out_file, requests, service_log, handed,
          outputs, calls, returns>>

pipeline_vars == <<entry, api_key, env_key, pages>>
translate_vars == <<chunks, translated_chunks, requests, service_log>>
render_vars == <<paragraphs, para_i, lines_added, lines_skipped, handed, outputs>>

\* "app": the Translate button handler of app.py
\* "main": PDFTranslator(api_key) followed by translate_pdf (translator.py:186-195)
\* "translate_text", "create_pdf": a direct call of that method on a
\*     constructed translator
Entries == {"app", "main", "translate_text", "create_pdf"}

\* values of a credential: absent, the empty string, a key
KeyValues == {None, "", "sk"}
Falsy(k) == k \in {None, ""}

\* page texts of the documents the model reads
PageTexts == {<<>>, <<"a">>}
Documents == UNION {[1..k -> PageTexts] : k \in 0..MaxPages}

\* what the remote service may answer to a request
Responses == {<<"a">>, <<"U+2019", NL, NL, "U+4E2D">>}
\* how a request may fail: network, auth, quota, malformed response
ServiceErrors == {"APIConnectionError", "AuthenticationError",
                  "RateLimitError", "IndexError"}

NoError == [type |-> None, chunk |-> 0]
\* an exception raised by a library carries its type and message only
Exc(t) == [type |-> t, chunk |-> 0]

NoCalls == [extract_text |-> 0, translate_text |-> 0, create_pdf |-> 0]

\* where an exception raised inside the pipeline lands: the except clause of
\* the Translate handler (app.py:183), or the caller
Raised == IF entry = "app" THEN "app_except" ELSE "raised"

Init ==
    /\ entry \in Entries
    /\ \/ entry = "app" /\ api_key = None /\ env_key \in KeyValues
          /\ pages \in Documents /\ pc = "app_check_key"
          /\ text = <<>> /\ translated_text = <<>>
       \/ entry = "main" /\ api_key \in {None, "sk"} /\ env_key \in KeyValues
          /\ pages \in Documents /\ pc = "init"
          /\ text = <<>> /\ translated_text = <<>>
       \/ entry = "translate_text" /\ api_key = "sk" /\ env_key = None
          /\ pages = <<>> /\ pc = "translate_text"
          /\ text \in Strings(TextAlphabet, MaxTextLen) /\ translated_text = <<>>
       \/ entry = "create_pdf" /\ api_key = "sk" /\ env_key = None
          /\ pages = <<>> /\ pc = "create_pdf"
          /\ text = <<>> /\ translated_text \in Strings(RenderAlphabet, MaxRenderLen)
    /\ chunks = <<>> /\ translated_chunks = <<>>
    /\ error = NoError
    /\ paragraphs = <<>> /\ para_i = 0 /\ lines_added = 0 /\ lines_skipped = 0
    /\ tmp_input = FALSE /\ out_file = FALSE
    /\ requests = <<>> /\ service_log = <<>> /\ handed = <<>> /\ outputs = 0
    /\ calls = NoCalls /\ returns = NoCalls

\* --------------------------------------------------- app.py Translate handler
\* app_check_key without the check: the handler goes on whatever the key
app_check_key_unchecked ==
    /\ pc = "app_check_key"
    /\ pc' = "app_create_temp"
    /\ UNCHANGED <<pipeline_vars, text, translated_text, error, tmp_input,
                   out_file, translate_vars, render_vars, calls, returns>>

\* app.py:104-108: st.stop() ends the script run (it is not an Exception)
app_check_key ==
    /\ pc = "app_check_key"
    /\ pc' = IF Falsy(env_key) THEN "app_stopped" ELSE "app_create_temp"
    /\ UNCHANGED <<pipeline_vars, text, translated_text, error, tmp_input,
                   out_file, translate_vars, render_vars, calls, returns>>

\* app.py:110-115: NamedTemporaryFile(delete=False) creates the input file,
\* mktemp only picks a name for the output file
app_create_temp ==
    /\ pc = "app_create_temp"
    /\ tmp_input' = TRUE
    /\ pc' = "init"
    /\ UNCHANGED <<pipeline_vars, text, translated_text, error, out_file,
                   translate_vars, render_vars, calls, returns>>

\* ------------------------------------------------------ PDFTranslator.__init__
PDFTranslator_init ==
    /\ pc = "init"
    /\ LET self_api_key == IF Falsy(api_key) THEN env_key ELSE api_key IN
       IF Falsy(self_api_key)
       THEN /\ error' = Exc("Exception")
            /\ pc' = Raised
       ELSE /\ error' = error
            /\ pc' = "extract_text"
    /\ UNCHANGED <<pipeline_vars, text, translated_text, tmp_input, out_file,
                   translate_vars, render_vars, calls, returns>>

\* ---------------------------------------------------------------- extract_text
\* PdfReader(pdf_path) raises on a file it cannot parse
extract_text ==
    /\ pc = "extract_text"
    /\ calls' = [calls EXCEPT !.extract_text = @ + 1]
    /\ \E readable \in BOOLEAN :
        IF readable
        THEN /\ text' = extracted(pages)
             /\ returns' = [returns EXCEPT !.extract_text = @ + 1]
             /\ error' = error
             /\ pc' = IF entry = "app" THEN "translate_text" ELSE "check_text"
        ELSE /\ error' = Exc("PdfReadError")
             /\ pc' = Raised
             /\ UNCHANGED <<text, returns>>
    /\ UNCHANGED <<pipeline_vars, translated_text, tmp_input, out_file,
                   translate_vars, render_vars>>

\* translate_pdf, translator.py:146-148
translate_pdf_check ==
    /\ pc = "check_text"
    /\ IF text = <<>>
       THEN error' = Exc("ValueError") /\ pc' = Raised
       ELSE error' = error /\ pc' = "translate_text"
    /\ UNCHANGED <<pipeline_vars, text, translated_text, tmp_input, out_file,
                   translate_vars, render_vars, calls, returns>>

\* -------------------------------------------------------------- translate_text
\* translator.py:47-58
translate_text_split ==
    /\ pc = "translate_text"
    /\ calls' = [calls EXCEPT !.translate_text = @ + 1]
    /\ chunks' = make_chunks(text)
    /\ translated_chunks' = <<>>
    /\ pc' = "translate_loop"
    /\ UNCHANGED <<pipeline_vars, text, translated_text, error, tmp_input,
                   out_file, requests, service_log, render_vars, returns>>

\* translator.py:62-77: the request for the next chunk leaves the client
translate_text_request ==
    /\ pc = "translate_loop"
    /\ Len(translated_chunks) < Len(chunks)
    /\ LET i == Len(translated_chunks) + 1 IN
       requests' = Append(requests,
            [part |-> i, total |-> Len(chunks), chunk |-> chunks[i],
             answered |-> Len(service_log)])
    /\ pc' = "translate_await"
    /\ UNCHANGED <<pipeline_vars, text, translated_text, error, tmp_input,
                   out_file, chunks, translated_chunks, service_log,
                   render_vars, calls, returns>>

\* translator.py:79-83: the service answers, the answer is collected
translate_text_response ==
    /\ pc = "translate_await"
    /\ \E r \in Responses :
        /\ service_log' = Append(service_log,
              [part |-> requests[Len(requests)].part, outcome |-> "ok",
               content |-> r])
        /\ translated_chunks' = Append(translated_chunks, r)
    /\ pc' = "translate_loop"
    /\ UNCHANGED <<pipeline_vars, text, translated_text, error, tmp_input,
                   out_file, chunks, requests, render_vars, calls, returns>>

\* translate_text_fail with the failure swallowed: the loop goes on with an
\* empty translation for the failed chunk
translate_text_fail_swallowed ==
    /\ pc = "translate_await"
    /\ \E k \in ServiceErrors :
        service_log' = Append(service_log,
              [part |-> requests[Len(requests)].part, outcome |-> k,
               content |-> <<>>])
    /\ translated_chunks' = Append(translated_chunks, <<>>)
    /\ pc' = "translate_loop"
    /\ UNCHANGED <<pipeline_vars, text, translated_text, error, tmp_input,
                   out_file, chunks, requests, render_vars, calls, returns>>

\* translator.py:68-79: the request raises; nothing in translate_text or in
\* translate_pdf catches it
translate_text_fail ==
    /\ pc = "translate_await"
    /\ \E k \in ServiceErrors :
        /\ service_log' = Append(service_log,
              [part |-> requests[Len(requests)].part, outcome |-> k,
               content |-> <<>>])
        /\ error' = Exc(k)
    /\ pc' = Raised
    /\ UNCHANGED <<pipeline_vars, text, translated_text, tmp_input, out_file,
                   chunks, translated_chunks, requests, render_vars, calls,
                   returns>>

\* translate_text_return joining the chunks with a single newline
translate_text_return_newline ==
    /\ pc = "translate_loop"
    /\ Len(translated_chunks) = Len(chunks)
    /\ translated_text' = join(<<NL>>, translated_chunks)
    /\ returns' = [returns EXCEPT !.translate_text = @ + 1]
    /\ pc' = IF entry = "translate_text" THEN "returned" ELSE "create_pdf"
    /\ UNCHANGED <<pipeline_vars, text, error, tmp_input, out_file,
                   translate_vars, render_vars, calls>>

\* translator.py:85-89
translate_text_return ==
    /\ pc = "translate_loop"
    /\ Len(translated_chunks) = Len(chunks)
    /\ translated_text' = join(<<NL, NL>>, translated_chunks)
    /\ returns' = [returns EXCEPT !.translate_text = @ + 1]
    /\ pc' = IF entry = "translate_text" THEN "returned" ELSE "create_pdf"
    /\ UNCHANGED <<pipeline_vars, text, error, tmp_input, out_file,
                   translate_vars, render_vars, calls>>

\* ------------------------------------------------------------------ create_pdf
\* translator.py:93-103
create_pdf_begin ==
    /\ pc = "create_pdf"
    /\ calls' = [calls EXCEPT !.create_pdf = @ + 1]
    /\ paragraphs' = split_paragraphs(translated_text)
    /\ para_i' = 0
    /\ lines_added' = 0
    /\ lines_skipped' = 0
    /\ pc' = "create_pdf_loop"
    /\ UNCHANGED <<pipeline_vars, text, translated_text, error, tmp_input,
                   out_file, translate_vars, handed, outputs, returns>>

\* create_pdf_para without the except clause: a raising paragraph ends
\* create_pdf with the exception
create_pdf_para_abort ==
    /\ pc = "create_pdf_loop"
    /\ para_i < Len(paragraphs)
    /\ para_i' = para_i + 1
    /\ LET para == paragraphs[para_i + 1] IN
       IF strip(para) = <<>>
       THEN UNCHANGED <<pc, error, lines_added, lines_skipped, handed>>
       ELSE \E internal \in BOOLEAN :
            LET clean == clean_para(para)
                cause == IF multi_cell_raises(clean) THEN "encoding"
                         ELSE IF internal THEN "internal" ELSE "none"
            IN /\ handed' = Append(handed,
                      [para |-> para, text |-> clean, cause |-> cause])
               /\ lines_skipped' = lines_skipped
               /\ IF cause = "none"
                  THEN lines_added' = lines_added + 1
                       /\ UNCHANGED <<pc, error>>
                  ELSE lines_added' = lines_added
                       /\ error' = Exc("FPDFException") /\ pc' = Raised
    /\ UNCHANGED <<pipeline_vars, text, translated_text, tmp_input,
                   out_file, translate_vars, paragraphs, outputs, calls,
                   returns>>

\* translator.py:105-127: one iteration of the paragraph loop.  multi_cell
\* raises on a character the font cannot encode, or on an internal error.
create_pdf_para ==
    /\ pc = "create_pdf_loop"
    /\ para_i < Len(paragraphs)
    /\ para_i' = para_i + 1
    /\ LET para == paragraphs[para_i + 1] IN
       IF strip(para) = <<>>
       THEN UNCHANGED <<lines_added, lines_skipped, handed>>
       ELSE \E internal \in BOOLEAN :
            LET clean == clean_para(para)
                cause == IF multi_cell_raises(clean) THEN "encoding"
                         ELSE IF internal THEN "internal" ELSE "none"
            IN /\ handed' = Append(handed,
                      [para |-> para, text |-> clean, cause |-> cause])
               /\ IF cause = "none"
                  THEN lines_added' = lines_added + 1
                       /\ lines_skipped' = lines_skipped
                  ELSE lines_skipped' = lines_skipped + 1
                       /\ lines_added' = lines_added
    /\ UNCHANGED <<pipeline_vars, pc, text, translated_text, error, tmp_input,
                   out_file, translate_vars, paragraphs, outputs, calls,
                   returns>>

\* translator.py:129-134 (and translate_pdf's return, 157-161): pdf.output
\* writes the file in one shot; when it raises the file may or may not exist
create_pdf_output ==
    /\ pc = "create_pdf_loop"
    /\ para_i = Len(paragraphs)
    /\ outputs' = outputs + 1
    /\ \E written \in BOOLEAN, exists \in BOOLEAN :
        IF written
        THEN /\ out_file' = TRUE
             /\ returns' = [returns EXCEPT !.create_pdf = @ + 1]
             /\ error' = error
             /\ pc' = IF entry = "app" THEN "app_download" ELSE "returned"
        ELSE /\ out_file' = exists
             /\ error' = Exc("OSError")
             /\ pc' = Raised
             /\ returns' = returns
    /\ UNCHANGED <<pipeline_vars, text, translated_text, tmp_input,
                   translate_vars, paragraphs, para_i, lines_added,
                   lines_skipped, handed, calls>>

\* --------------------------------------------- app.py, after the translation
\* app.py:152-174: read the output file back, offer it for download
app_download ==
    /\ pc = "app_download"
    /\ \E ok \in BOOLEAN :
        IF ok THEN error' = error /\ pc' = "app_cleanup"
        ELSE error' = Exc("OSError") /\ pc' = "app_except"
    /\ UNCHANGED <<pipeline_vars, text, translated_text, tmp_input, out_file,
                   translate_vars, render_vars, calls, returns>>

\* app.py:176-181: a failing unlink is swallowed and ends the cleanup
app_cleanup ==
    /\ pc = "app_cleanup"
    /\ \E in_ok \in BOOLEAN, out_ok \in BOOLEAN :
        /\ tmp_input' = (IF in_ok THEN FALSE ELSE tmp_input)
        /\ out_file' = (IF in_ok /\ out_ok THEN FALSE ELSE out_file)
    /\ pc' = "app_done"
    /\ UNCHANGED <<pipeline_vars, text, translated_text, error,
                   translate_vars, render_vars, calls, returns>>

\* app.py:183-185: the handler's except clause shows the error
app_except ==
    /\ pc = "app_except"
    /\ pc' = "app_failed"
    /\ UNCHANGED <<pipeline_vars, text, translated_text, error, tmp_input,
                   out_file, translate_vars, render_vars, calls, returns>>

Next ==
    \/ app_check_key
    \/ app_create_temp
    \/ PDFTranslator_init
    \/ extract_text
    \/ translate_pdf_check
    \/ translate_text_split
    \/ translate_text_request
    \/ translate_text_response
    \/ translate_text_fail
    \/ translate_text_return
    \/ create_pdf_begin
    \/ create_pdf_para
    \/ create_pdf_output
    \/ app_download
    \/ app_cleanup
    \/ app_except

Spec == Init /\ [][Next]_vars

TypeOK ==
    /\ entry \in Entries
    /\ pc \in {"app_check_key", "app_stopped", "app_create_temp", "init",
               "extract_text", "check_text", "translate_text",
               "translate_loop", "translate_await", "create_pdf",
               "create_pdf_loop", "app_download", "app_cleanup", "app_done",
               "app_except", "app_failed", "raised", "returned"}
    /\ lines_added \in Nat /\ lines_skipped \in Nat /\ outputs \in Nat
    /\ tmp_input \in BOOLEAN /\ out_file \in BOOLEAN

\* ===================================================================== claims
Last(s) == s[Len(s)]
Front(s) == SubSeq(s, 1, Len(s) - 1)

\* the consecutive windows t[0:n], t[n:2n], ... of a text
RECURSIVE Windows(_, _)
Windows(t, n) ==
    IF t = <<>> THEN <<>>
    ELSE IF Len(t) <= n THEN <<t>>
    ELSE <<SubSeq(t, 1, n)>> \o Windows(SubSeq(t, n + 1, Len(t)), n)

\* the concatenation of a sequence of strings
RECURSIVE Concat(_)
Concat(ss) == IF ss = <<>> THEN <<>> ELSE Concat(Front(ss)) \o Last(ss)

\* strings put one after the other with a blank line between neighbours
RECURSIVE BlankLineSeparated(_)
BlankLineSeparated(ss) ==
    IF ss = <<>> THEN <<>>
    ELSE IF Len(ss) = 1 THEN ss[1]
    ELSE BlankLineSeparated(Front(ss)) \o <<NL, NL>> \o Last(ss)

RequestChunks == [k \in 1..Len(requests) |-> requests[k].chunk]
Answers == [k \in 1..Len(service_log) |-> service_log[k].content]
FailedAt(k) == k \in 1..Len(service_log) /\ service_log[k].outcome # "ok"

\* C1: the requests translate_text issues are exactly the ceil(L/N)
\* consecutive character windows of the text, one request per window and no
\* other request.
C1_RequestsAreCharWindows ==
    returns.translate_text = 1 => RequestChunks = Windows(text, chunk_size)

\* C2: concatenating the chunks translate_text produces, in production
\* order, yields exactly the text.
C2_ChunksRoundTrip ==
    calls.translate_text = 1 => Concat(chunks) = text

\* C3: requests are issued one at a time in chunk index order, each after
\* the answer to the previous one; request i carries "part i of total" with
\* total the number of chunks; the result is the answers in index order,
\* separated by a blank line.
C3_SequentialInOrder ==
    /\ \A k \in 1..Len(requests) :
          /\ requests[k].part = k
          /\ requests[k].total = Len(chunks)
          /\ requests[k].chunk = chunks[k]
          /\ requests[k].answered = k - 1
    /\ \A k \in 1..Len(service_log) : service_log[k].part = k
    /\ returns.translate_text = 1 =>
          /\ Len(service_log) = Len(chunks)
          /\ translated_text = BlankLineSeparated(Answers)

C3_Witness ==
    /\ returns.translate_text = 1
    /\ Len(chunks) >= 3
    /\ service_log[1].content # service_log[2].content

\* C4: when the extracted text is empty, translate_text and create_pdf are
\* never invoked and the run ends with an error.
C4_EmptyNeverTranslated ==
    (returns.extract_text = 1 /\ text = <<>>) =>
        /\ calls.translate_text = 0
        /\ calls.create_pdf = 0
        /\ pc \in {"check_text", "raised", "app_except", "app_failed"}

\* C5: a failed request is the last one: it is not retried, no later chunk is
\* requested, translate_text returns nothing, create_pdf is not invoked and
\* no output document is written.
C5_FailureAborts ==
    \A k \in 1..Len(service_log) : FailedAt(k) =>
        /\ k = Len(service_log)
        /\ Len(requests) = k
        /\ \A j \in 1..Len(requests) :
              requests[j].part = service_log[k].part => j = k
        /\ returns.translate_text = 0
        /\ translated_text = <<>>
        /\ calls.create_pdf = 0
        /\ outputs = 0
        /\ ~out_file
        /\ pc \in {"raised", "app_except", "app_failed"}

C5_Witness ==
    /\ \E k \in 2..Len(service_log) : FailedAt(k) /\ k < Len(chunks)
    /\ pc \in {"raised", "app_failed"}

\* C6: the error that reaches the caller of translate_text names the index
\* of the chunk whose request failed.
C6_ErrorNamesChunk ==
    \A k \in 1..Len(service_log) : FailedAt(k) =>
        error.chunk = service_log[k].part

\* the paragraphs create_pdf has to render: those not made of whitespace only
RECURSIVE NonEmpty(_)
NonEmpty(ps) ==
    IF ps = <<>> THEN 0
    ELSE NonEmpty(Tail(ps)) +
         (IF \E j \in 1..Len(Head(ps)) : Head(ps)[j] \notin Whitespace
          THEN 1 ELSE 0)

RaisedParas == {k \in 1..Len(handed) : handed[k].cause # "none"}

\* C7: a paragraph whose rendering raises is skipped and the loop goes on:
\* the document is committed once, after the last paragraph, and written +
\* skipped counts every non-empty paragraph, skipped counting the raising
\* ones.
C7_SkipAndContinue ==
    /\ pc = "create_pdf_loop" =>
          /\ outputs = 0
          /\ lines_added + lines_skipped
                = NonEmpty(SubSeq(paragraphs, 1, para_i))
    /\ (calls.create_pdf = 1 /\ pc # "create_pdf_loop") =>
          /\ outputs = 1
          /\ para_i = Len(paragraphs)
          /\ Len(handed) = NonEmpty(split_paragraphs(translated_text))
          /\ lines_added + lines_skipped = Len(handed)
          /\ lines_skipped = Cardinality(RaisedParas)
          /\ (RaisedParas # {} => lines_skipped >= 1)

C7_Witness ==
    /\ returns.create_pdf = 1
    /\ \E k \in RaisedParas : \E j \in (k + 1)..Len(handed) :
          handed[j].cause = "none"
    /\ lines_added >= 1 /\ lines_skipped >= 1

NoCredential == Falsy(api_key) /\ Falsy(env_key)

\* C8: without a credential nothing is processed: no temporary file is
\* created and extract_text, translate_text and create_pdf are not invoked.
C8_NoCredentialNoWork ==
    NoCredential =>
        /\ ~tmp_input
        /\ ~out_file
        /\ calls = NoCalls
        /\ requests = <<>>
        /\ pc \in {"app_check_key", "app_stopped", "init", "raised"}

C8_Witness == NoCredential /\ pc \in {"app_stopped", "raised"}

\* the plain-ASCII substitute of a character
Substitute(c) ==
    CASE c \in {"U+2018", "U+2019"} -> <<"'">>
      [] c \in {"U+201C", "U+201D"} -> <<"\"">>
      [] c = "U+2014" -> <<"-">>
      [] c = "U+2026" -> <<".", ".", ".">>
      [] OTHER -> <<c>>

RECURSIVE Substituted(_)
Substituted(s) ==
    IF s = <<>> THEN <<>> ELSE Substituted(Front(s)) \o Substitute(Last(s))

\* C9: the text handed to the writer has each of the six characters replaced
\* by its substitute, every other character unchanged and in place, and none
\* of the six makes a paragraph raise.
C9_SmartPunctuationReplaced ==
    \A k \in 1..Len(handed) :
        /\ \A j \in 1..Len(handed[k].text) : handed[k].text[j] \notin SmartChars
        /\ handed[k].text = Substituted(handed[k].para)
        /\ handed[k].cause = "encoding" =>
              \E j \in 1..Len(handed[k].para) :
                  handed[k].para[j] \in Unsupported

C9_Witness ==
    \E k \in 1..Len(handed) :
        /\ handed[k].cause = "none"
        /\ \E i, j \in 1..Len(handed[k].para) :
              /\ i < j
              /\ handed[k].para[i] = "U+2026"
              /\ handed[k].para[j] \in SmartChars \ {"U+2026"}

\* C10: when the Translate action has ended, neither temporary file remains.
C10_TempFilesReleased ==
    (entry = "app" /\ pc \in {"app_stopped", "app_done", "app_failed"}) =>
        ~tmp_input /\ ~out_file

====
